---- MODULE Spec2Model ----
(***************************************************************************)
(* Globe viewer (src/src/lib.rs): the rotation state `angle`, the drag     *)
(* flag `pressed`, the peer list with its cached projections, the GPU      *)
(* `angle` uniform and the requestAnimationFrame callbacks of the fly-to   *)
(* animations, driven by mousedown / mousemove / mouseup / click events    *)
(* and by animation frames.                                                *)
(*                                                                         *)
(* Numbers.  TLC has integers only, so floating point values are fixed     *)
(* point integers, rounded to nearest after every operation as the         *)
(* hardware rounds:                                                        *)
(*   f32 radians (angle, uniform, animation lat/lon) : units of 10^-6 rad  *)
(*   f64 radians (Peer.lat, Peer.lon, trig inputs)   : units of 10^-7 rad  *)
(*   f64 unit-sphere values (sin, cos, Peer.x/y)     : units of 1/36000,   *)
(*       i.e. a hundredth of a pixel at the 360 px globe radius            *)
(*   mouse coordinates and movements                 : whole pixels (i32)  *)
(***************************************************************************)
EXTENDS Integers, Sequences, FiniteSets

VARIABLES
    angle,      \* Rc<Cell<[f32; 2]>>: RotationState <<pitch, yaw>>
    pressed,    \* Rc<Cell<bool>>: the drag flag
    peers,      \* Rc<RefCell<Vec<Peer>>>: records [lat, lon, x, y]
    uniform,    \* the `angle` uniform of the WebGL program: the pair of the last draw
    raf,        \* pending requestAnimationFrame callbacks, in request order
    inFrame,    \* callbacks of the running animation frame still to be invoked
    gl,         \* the WebGL context: depth test, depth buffer, commands of the last draw
    cells,      \* the RefCell borrow flags (peers, the callback cells f) and a borrow panic
    setup,      \* progress and outcome of the entry point `start`
    moves,      \* number of mousemove events handled while pressed
    started,    \* number of fly-to animations started
    solo,       \* history: one animation was started alone and no other event came since
    last,       \* history: the handler turn that produced this state
    probe       \* arguments and results of a function applied on its own

vars == <<angle, pressed, peers, uniform, raf, inFrame, gl, cells, setup,
          moves, started, solo, last, probe>>

----------------------------------------------------------------------------
(* Bounds of the model *)

\* pressed mousemove events plus fly-to animations started, per behaviour
MaxInputs == 3

\* event.movement_x() / movement_y() of the mousemove events
Movements == { <<1161, 2000>>, <<-1100, -2000>> }

\* e.client_x() / client_y() of the click events
Clicks == { <<417, 50>>, <<584, 204>> }

\* largest distance, in hundredths of a pixel, between a peer's pixel position
\* as the fixed-point arithmetic has it and as the f64 arithmetic has it
HitNoise == 8

\* the drags that turn the globe in DragSpec
DragMoves ==
    { <<0, 0>>, <<90, 45>>, <<-250, -130>>, <<600, 400>>, <<-1500, -900>>, <<2000, 2000>> }

----------------------------------------------------------------------------
(* Units and constants of the program *)

F32Unit == 10^6                 \* one radian as an f32 angle
F64Unit == 10 * F32Unit         \* one radian as an f64 angle
Radius == 360                   \* globe radius and centre, in pixels
Scale == Radius * 100           \* 1.0 as an f64 unit-sphere value
HitRadius == 10                 \* hit-test threshold, in pixels
DragDivisor == 720              \* pixels of mouse movement per radian
StepDivisor == 50               \* dlat / 50.0, dlon / 50.0
StepLimit == 50                 \* `if i > 50`
PI == 31415927                  \* std::f64::consts::PI as an f64 angle
HalfPi == PI \div 2
TwoPi == 2 * PI
PitchMin == -F32Unit            \* lat.clamp(-1.0, 1.0)
PitchMax == F32Unit

\* the dummy data: <<latitude, longitude>> in millionths of a degree
PeerDegrees == << <<59334591, 18063240>>,       \* Stockholm
                  <<51509865, -118092>>,        \* London
                  <<40730610, -73935252>>,      \* New York
                  <<-19002846, 46460938>> >>    \* Madagascar

----------------------------------------------------------------------------
(* Floating point arithmetic *)

\* a / b rounded to the nearest unit (b > 0)
RoundDiv(a, b) == (a + b \div 2) \div b

\* a * b of two unit-sphere values
Mul(a, b) == RoundDiv(a * b, Scale)

Abs(a) == IF a < 0 THEN -a ELSE a

\* `as f32` of an f64 angle
AsF32(a) == RoundDiv(a, F64Unit \div F32Unit)

\* `.into()` of an f32 angle: f32 -> f64 is exact
IntoF64(a) == a * (F64Unit \div F32Unit)

\* deg * PI / 180.0, from millionths of a degree
ToRadians(d) ==
    LET m == Abs(d)
        q == m \div 10000
        r == m % 10000
        v == q * 1745 + RoundDiv(q * 3293 + r * 1745, 10000)
    IN  IF d < 0 THEN -v ELSE v

\* f64 angle -> the unit-sphere scale used inside the series
ToScale(a) == RoundDiv(a * 9, 2500)

\* sin and cos on [-pi/4, pi/4] by their Taylor series (Horner form)
SinSmall(x) ==
    LET x2 == Mul(x, x)
        t1 == Scale - RoundDiv(x2, 42)
        t2 == Scale - RoundDiv(Mul(x2, t1), 20)
        t3 == Scale - RoundDiv(Mul(x2, t2), 6)
    IN  Mul(x, t3)

CosSmall(x) ==
    LET x2 == Mul(x, x)
        t1 == Scale - RoundDiv(x2, 56)
        t2 == Scale - RoundDiv(Mul(x2, t1), 30)
        t3 == Scale - RoundDiv(Mul(x2, t2), 12)
    IN  Scale - RoundDiv(Mul(x2, t3), 2)

\* sin on [0, pi/2]
SinQuadrant(r) ==
    IF 2 * r <= HalfPi THEN SinSmall(ToScale(r)) ELSE CosSmall(ToScale(HalfPi - r))

\* f64::sin
Sin(a) ==
    LET r == a % TwoPi
    IN  IF r <= HalfPi THEN SinQuadrant(r)
        ELSE IF r <= PI THEN SinQuadrant(PI - r)
        ELSE IF r <= PI + HalfPi THEN -SinQuadrant(r - PI)
        ELSE -SinQuadrant(TwoPi - r)

\* f64::cos
Cos(a) == Sin(a + HalfPi)

\* a clamp that forgets the upper bound
ClampLowerOnly(v, lo, hi) == IF v < lo THEN lo ELSE v

\* f32::clamp
Clamp(v, lo, hi) == IF v < lo THEN lo ELSE IF v > hi THEN hi ELSE v

----------------------------------------------------------------------------
(* Peer *)

\* Peer::cartesian
Cartesian(lat, lon) ==
    << Mul(Cos(lat), Sin(lon)), Sin(lat), Mul(Cos(lat), Cos(lon + PI)) >>

\* a rotate that turns the cached x and y further instead of starting from
\* the peer's (lat, lon)
RotateFromCache(p, lat, lon) ==
    LET c == Cartesian(p.lat, p.lon)
        x == p.x
        y == p.y
        z == c[3]
    IN  [p EXCEPT
           !.x = Mul(Cos(lon), x) - Mul(Sin(lon), z),
           !.y = Mul(Cos(lat), y) + Mul(Mul(Sin(lat), Cos(lon)), z)
                   + Mul(Mul(Sin(lat), Sin(lon)), x)]

\* Peer::rotate
Rotate(p, lat, lon) ==
    LET c == Cartesian(p.lat, p.lon)
        x == c[1]
        y == c[2]
        z == c[3]
    IN  [p EXCEPT
           !.x = Mul(Cos(lon), x) - Mul(Sin(lon), z),
           !.y = Mul(Cos(lat), y) + Mul(Mul(Sin(lat), Cos(lon)), z)
                   + Mul(Mul(Sin(lat), Sin(lon)), x)]

\* Peer::new
PeerNew(latDeg, lonDeg) ==
    LET lat == ToRadians(latDeg)
        lon == ToRadians(lonDeg)
        c == Cartesian(lat, lon)
    IN  [lat |-> lat, lon |-> lon, x |-> c[1], y |-> c[2]]

\* the peers vector
InitialPeers == [k \in DOMAIN PeerDegrees |-> PeerNew(PeerDegrees[k][1], PeerDegrees[k][2])]

PeerIds == DOMAIN PeerDegrees

----------------------------------------------------------------------------
(* The draw closure *)

\* a 2D pass that reads the rotation cell again instead of its arguments
DrawPeersFromCell(ps, lat, lon) ==
    [k \in DOMAIN ps |-> Rotate(ps[k], IntoF64(angle[1]), IntoF64(angle[2]))]

\* 2D pass of draw(lat, lon): every peer is re-projected with the arguments
DrawPeers(ps, lat, lon) ==
    [k \in DOMAIN ps |-> Rotate(ps[k], IntoF64(lat), IntoF64(lon))]

\* GPU pass of draw(lat, lon): the uniform pushed to the program
DrawUniform(lat, lon) == <<lat, lon>>

\* GPU pass of draw(lat, lon): the WebGL calls, in order
DrawCommands ==
    << [op |-> "uniform2fv", mask |-> {}],
       [op |-> "clear_color", mask |-> {}],
       [op |-> "clear", mask |-> {"COLOR_BUFFER_BIT"}],
       [op |-> "draw_arrays", mask |-> {}] >>

\* one WebGL call on the context: clear resets the buffers of its mask, and
\* draw_arrays writes the depth buffer; `stale` tells that the draw call met
\* depth values of an earlier draw call with the depth test enabled
GlCall(g, c) ==
    IF c.op = "clear" /\ "DEPTH_BUFFER_BIT" \in c.mask
    THEN [g EXCEPT !.depth = "cleared"]
    ELSE IF c.op = "draw_arrays"
    THEN [g EXCEPT !.depth = "written", !.stale = (g.depthTest /\ g.depth = "written")]
    ELSE g

RECURSIVE GlRun(_, _)
GlRun(g, cs) == IF cs = <<>> THEN g ELSE GlRun(GlCall(g, Head(cs)), Tail(cs))

\* the context after the GPU pass of one draw
DrawGl(g) == [GlRun(g, DrawCommands) EXCEPT !.commands = DrawCommands]

\* the browser presents the canvas and, preserveDrawingBuffer being false,
\* clears the drawing buffer; this happens in a rendering update, after the
\* animation frame callbacks of that update, never inside a handler
Present(g) == [g EXCEPT !.depth = "cleared"]

\* the context as `start` leaves it before the first draw
\* what buffer_data can have read through the Float32Array view of the Vec that
\* was dropped with the statement that made the view: the vertices still, or
\* what the allocator wrote over them.  No handler reads the buffer, so the
\* context carries the set of the possible contents and not one of them.
BufferContents == {"vertices", "freed"}

InitialGl ==
    [depthTest |-> TRUE, depth |-> "cleared", stale |-> FALSE, commands |-> <<>>,
     buffer |-> BufferContents]

----------------------------------------------------------------------------
(* RefCell borrows *)

\* the cells are named by number: the peer list, and the callback cell f of
\* each animation by the animation's id (1, 2, ...)
PeersCell == 0

Borrow(c) == [cell |-> c, op |-> "borrow"]
BorrowMut(c) == [cell |-> c, op |-> "borrow_mut"]
Release(c) == [cell |-> c, op |-> "release"]

\* one borrow event on the flags: borrow panics while the cell is mutably
\* borrowed, borrow_mut panics while it is borrowed at all; after a panic the
\* handler is gone and nothing else happens
CellCall(c, e) ==
    LET live == {n \in DOMAIN c.held : c.held[n].cell = e.cell}
        last1 == CHOOSE n \in live : \A m \in live : m <= n
    IN  IF c.panic THEN c
        ELSE IF e.op = "borrow"
        THEN IF \E n \in live : c.held[n].op = "borrow_mut"
             THEN [c EXCEPT !.panic = TRUE]
             ELSE [c EXCEPT !.held = Append(c.held, e)]
        ELSE IF e.op = "borrow_mut"
        THEN IF live # {}
             THEN [c EXCEPT !.panic = TRUE]
             ELSE [c EXCEPT !.held = Append(c.held, e)]
        ELSE [c EXCEPT !.held = [n \in 1 .. Len(c.held) - 1 |->
                                   IF n < last1 THEN c.held[n] ELSE c.held[n + 1]]]

RECURSIVE CellRun(_, _)
CellRun(c, es) == IF es = <<>> THEN c ELSE CellRun(CellCall(c, Head(es)), Tail(es))

\* the draw closure: peers.borrow_mut() lives for the loop over the peers
DrawBorrows == << BorrowMut(PeersCell), Release(PeersCell) >>

RECURSIVE StartBorrows(_)
\* the click handler, for the animations it starts: *g.borrow_mut() = Some(..)
\* and then g.borrow() for request_animation_frame, for each in turn
StartBorrows(ids) ==
    IF ids = <<>> THEN <<>>
    ELSE << BorrowMut(Head(ids)), Release(Head(ids)),
            Borrow(Head(ids)), Release(Head(ids)) >> \o StartBorrows(Tail(ids))

\* a click handler that draws the first frame of each animation at once
ClickBorrowsDrawing(ids) ==
    << Borrow(PeersCell) >> \o StartBorrows(ids)
        \o (IF ids = <<>> THEN <<>> ELSE DrawBorrows) \o << Release(PeersCell) >>

\* the click handler: peers.borrow() lives for the whole for_each
ClickBorrows(ids) ==
    << Borrow(PeersCell) >> \o StartBorrows(ids) \o << Release(PeersCell) >>

\* the animation closure when it advances: draw, then f.borrow() for
\* request_animation_frame
TickBorrows(id) == DrawBorrows \o << Borrow(id), Release(id) >>

\* the animation closure when it ends: f.borrow_mut().take()
DoneBorrows(id) == << BorrowMut(id), Release(id) >>

InitialCells == [held |-> <<>>, panic |-> FALSE]

\* `start` returned Ok(()): all four listeners registered, one draw issued
SetupDone ==
    [pc |-> "end", fault |-> [at |-> "none", how |-> "none"], result |-> "ok",
     listeners |-> {"mousedown", "mousemove", "mouseup", "click"}, draws |-> 1]

----------------------------------------------------------------------------
(* Event handlers *)

\* pixel position of a peer, in hundredths of a pixel
PixelX(p) == Radius * 100 + RoundDiv(p.x * Radius * 100, Scale)
PixelY(p) == Radius * 100 - RoundDiv(p.y * Radius * 100, Scale)

\* a hit-test with || in place of &&
HitEitherAxis(p, cx, cy) ==
    \/ Abs(cx * 100 - PixelX(p)) < HitRadius * 100
    \/ Abs(cy * 100 - PixelY(p)) < HitRadius * 100

\* the hit-test of the click handler
Hit(p, cx, cy) ==
    /\ Abs(cx * 100 - PixelX(p)) < HitRadius * 100
    /\ Abs(cy * 100 - PixelY(p)) < HitRadius * 100

\* what the hit-test can answer for the f64 position the fixed-point position
\* stands for: the comparison as computed, or either answer where an offset is
\* within HitNoise of the threshold and the other offset does not decide
HitOutcomes(p, cx, cy) ==
    LET dx == Abs(cx * 100 - PixelX(p))
        dy == Abs(cy * 100 - PixelY(p))
        r == HitRadius * 100
        sure == dx + HitNoise < r /\ dy + HitNoise < r
        possible == dx - HitNoise < r /\ dy - HitNoise < r
    IN  IF possible /\ ~sure THEN BOOLEAN ELSE {Hit(p, cx, cy)}

\* a movement divided by the globe radius instead of the canvas size
MovementToAngleByRadius(d) == RoundDiv(d * F32Unit, Radius)

\* (event.movement as f32) / 720.0
MovementToAngle(d) == RoundDiv(d * F32Unit, DragDivisor)

\* an animation closure that starts from the orientation last drawn
NewAnimationFromDisplay(k, n) ==
    [lat |-> uniform[1], lon |-> uniform[2],
     dlat |-> AsF32(peers[k].lat) - uniform[1],
     dlon |-> AsF32(peers[k].lon) + uniform[2],
     i |-> 0,
     id |-> started + n,
     peer |-> k]

\* the state captured by the animation closure started for peer k, the n-th
\* animation of this click
NewAnimation(k, n) ==
    [lat |-> angle[1], lon |-> angle[2],
     dlat |-> AsF32(peers[k].lat) - angle[1],
     dlon |-> AsF32(peers[k].lon) + angle[2],
     i |-> 0,
     id |-> started + n,    \* the callback cell f of this animation
     peer |-> k]            \* history: the peer the fly-to was started for

Turn(op, x, y, who, n, c) ==
    [op |-> op, x |-> x, y |-> y, from |-> angle, started |-> who, draws |-> n, calls |-> c]

\* the program as `start` leaves it when it returns Ok
Constructed ==
    /\ angle = <<0, 0>>
    /\ pressed = FALSE
    /\ peers = DrawPeers(InitialPeers, 0, 0)
    /\ uniform = DrawUniform(0, 0)
    /\ raf = <<>>
    /\ inFrame = 0
    /\ gl = DrawGl(InitialGl)
    /\ cells = CellRun(InitialCells, DrawBorrows)
    /\ setup = SetupDone
    /\ moves = 0
    /\ started = 0
    /\ solo = FALSE
    /\ last = Turn("start", 0, 0, {}, 1, 0)

Init == Constructed /\ probe = <<>>

\* a request that cancels the callbacks requested before
RequestReplacing(q, anims) == IF anims = <<>> THEN q ELSE anims

\* request_animation_frame: the callbacks join the browser's list, in order
Request(q, anims) == q \o anims

\* a completion that requests another frame for the finished callback
TakeAndRequest(q) == Tail(q) \o <<Head(q)>>

\* f.borrow_mut().take() and return: the callback that ran is released and
\* not requested again
Take(q) == Tail(q)

MouseDown ==
    /\ inFrame = 0
    /\ pressed' = TRUE
    /\ solo' = FALSE
    /\ last' = Turn("mousedown", 0, 0, {}, 0, 0)
    /\ UNCHANGED <<angle, peers, uniform, raf, inFrame, gl, cells, setup, moves, started,
                   probe>>

MouseUp ==
    /\ inFrame = 0
    /\ pressed' = FALSE
    /\ solo' = FALSE
    /\ last' = Turn("mouseup", 0, 0, {}, 0, 0)
    /\ UNCHANGED <<angle, peers, uniform, raf, inFrame, gl, cells, setup, moves, started,
                   probe>>

MouseMove(dx, dy) ==
    /\ inFrame = 0
    /\ solo' = FALSE
    /\ IF pressed
       THEN LET lat == Clamp(angle[1] + MovementToAngle(dy), PitchMin, PitchMax)
                lon == angle[2] + MovementToAngle(dx)
            IN  /\ moves + started < MaxInputs
                /\ angle' = <<lat, lon>>
                /\ peers' = DrawPeers(peers, lat, lon)
                /\ uniform' = DrawUniform(lat, lon)
                /\ gl' = DrawGl(gl)
                /\ cells' = CellRun(cells, DrawBorrows)
                /\ moves' = moves + 1
                /\ last' = Turn("mousemove", dx, dy, {}, 1, 0)
       ELSE /\ last' = Turn("mousemove", 0, 0, {}, 0, 0)     \* the movement is not read
            /\ UNCHANGED <<angle, peers, uniform, gl, cells, moves>>
    /\ UNCHANGED <<pressed, raf, inFrame, setup, started, probe>>

Click(cx, cy) ==
    \E hit \in [PeerIds -> BOOLEAN] :
    LET hits == SelectSeq([k \in PeerIds |-> k], LAMBDA k : hit[k])
        anims == [n \in DOMAIN hits |-> NewAnimation(hits[n], n)]
    IN  /\ \A k \in PeerIds : hit[k] \in HitOutcomes(peers[k], cx, cy)
        /\ inFrame = 0
        /\ moves + started + Len(hits) <= MaxInputs
        /\ raf' = Request(raf, anims)
        /\ cells' = CellRun(cells, ClickBorrows([n \in DOMAIN anims |-> anims[n].id]))
        /\ started' = started + Len(hits)
        /\ solo' = (Len(hits) = 1 /\ raf = <<>>)
        /\ last' = Turn("click", cx, cy, {anims[n].peer : n \in DOMAIN anims}, 0, 0)
        /\ UNCHANGED <<angle, pressed, peers, uniform, inFrame, gl, setup, moves, probe>>

\* one invocation of the animation closure at the head of the callback list
AnimationFrame ==
    /\ raf # <<>>
    /\ LET a == Head(raf)
           lat == a.lat + RoundDiv(a.dlat, StepDivisor)
           lon == a.lon - RoundDiv(a.dlon, StepDivisor)
           left == (IF inFrame = 0 THEN Len(raf) ELSE inFrame) - 1
       IN  /\ IF a.i > StepLimit
              THEN /\ angle' = <<a.lat, a.lon>>
                   /\ raf' = Take(raf)
                   /\ gl' = (IF left = 0 THEN Present(gl) ELSE gl)
                   /\ cells' = CellRun(cells, DoneBorrows(a.id))
                   /\ last' = Turn("done", a.peer, a.id, {}, 0, a.i + 1)
                   /\ UNCHANGED <<peers, uniform>>
              ELSE /\ peers' = DrawPeers(peers, lat, lon)
                   /\ uniform' = DrawUniform(lat, lon)
                   /\ raf' = Request(Tail(raf), <<[a EXCEPT !.i = a.i + 1, !.lat = lat, !.lon = lon]>>)
                   /\ gl' = (IF left = 0 THEN Present(DrawGl(gl)) ELSE DrawGl(gl))
                   /\ cells' = CellRun(cells, TickBorrows(a.id))
                   /\ last' = Turn("tick", a.peer, a.id, {}, 1, a.i + 1)
                   /\ UNCHANGED angle
           /\ inFrame' = left
    /\ UNCHANGED <<pressed, setup, moves, started, solo, probe>>

\* a rendering update with no animation frame callback pending: the browser
\* presents what the handlers drew since the last one
Paint ==
    /\ inFrame = 0
    /\ raf = <<>>
    /\ gl.depth = "written"
    /\ gl' = Present(gl)
    /\ last' = Turn("paint", 0, 0, {}, 0, 0)
    /\ UNCHANGED <<angle, pressed, peers, uniform, raf, inFrame, cells, setup,
                   moves, started, solo, probe>>

Next ==
    \/ MouseDown
    \/ MouseUp
    \/ \E m \in Movements : MouseMove(m[1], m[2])
    \/ \E c \in Clicks : Click(c[1], c[2])
    \/ AnimationFrame
    \/ Paint

Spec == Init /\ [][Next]_vars

----------------------------------------------------------------------------
(* The drag handlers alone, with other movements *)

DragNext ==
    \/ MouseDown
    \/ MouseUp
    \/ \E m \in DragMoves : MouseMove(m[1], m[2])
    \/ Paint

DragSpec == Init /\ [][DragNext]_vars

----------------------------------------------------------------------------
(* The two projections as functions of real numbers.  An angle is given by
   its sine and cosine as whole numbers of 1/65, so that every sum and product
   the code forms is exact; a value is written with the unit it has, 1/65^2
   for a point of the sphere and 1/65^4 for a projected one.  The f64 of the
   2D path and the f32 of the shader are roundings of these values. *)

TrigUnit == 65

\* the angles whose sine and cosine are whole numbers of 1/65
ExactAngles ==
    {[s |-> a, c |-> b] : a, b \in -TrigUnit .. TrigUnit} \ {t \in
        [s : -TrigUnit .. TrigUnit, c : -TrigUnit .. TrigUnit] :
            t.s * t.s + t.c * t.c # TrigUnit * TrigUnit}

\* the latitudes and longitudes of the points projected
ExactLats == {a \in ExactAngles : a.c >= 0 /\ a.s \in {0, 25, -25, 56, -56, 65, -65}}
ExactLons == {a \in ExactAngles : a.s \in {0, 16, -16, 39, -39, 60, -60}}

\* the pitches and yaws the globe is drawn at
ExactTurns == {a \in ExactAngles : a.s \in {0, 33, -33, 52, -52, 63, -63}}

\* lon + PI
AddPi(a) == [s |-> -a.s, c |-> -a.c]

\* a cartesian without the +PI on the z component
ExactCartesianNoOffset(lat, lon) ==
    << lat.c * lon.s, lat.s * TrigUnit, lat.c * lon.c >>

\* Peer::cartesian, in 1/65^2
ExactCartesian(lat, lon) ==
    << lat.c * lon.s, lat.s * TrigUnit, lat.c * AddPi(lon).c >>

\* Peer::rotate, x and y in 1/65^4
ExactRotate(p, lat, lon) ==
    LET c == ExactCartesian(p.lat, p.lon)
        x == c[1]
        y == c[2]
        z == c[3]
    IN  [p EXCEPT
           !.x = (lon.c * x - lon.s * z) * TrigUnit,
           !.y = (lat.c * y) * TrigUnit + (lat.s * lon.c) * z + (lat.s * lon.s) * x]

\* Peer::new, x and y in 1/65^4
ExactPeerNew(lat, lon) ==
    LET c == ExactCartesian(lat, lon)
    IN  [lat |-> lat, lon |-> lon,
         x |-> c[1] * TrigUnit * TrigUnit, y |-> c[2] * TrigUnit * TrigUnit]

\* rotateY and rotateX of the vertex shader: sequences of columns, as the GLSL
\* mat4 constructor takes them, in 1/65
ExactRotateY(r) ==
    << <<r.c, 0, -r.s, 0>>,
       <<0, TrigUnit, 0, 0>>,
       <<r.s, 0, r.c, 0>>,
       <<0, 0, 0, TrigUnit>> >>

ExactRotateX(r) ==
    << <<TrigUnit, 0, 0, 0>>,
       <<0, r.c, r.s, 0>>,
       <<0, -r.s, r.c, 0>>,
       <<0, 0, 0, TrigUnit>> >>

\* mat4 * mat4: column j of the product is a applied to column j of b
ExactMatMul(a, b) ==
    [j \in 1 .. 4 |-> [i \in 1 .. 4 |->
        a[1][i] * b[j][1] + a[2][i] * b[j][2] + a[3][i] * b[j][3] + a[4][i] * b[j][4]]]

\* mat4 * vec4
ExactMatVec(a, v) ==
    [i \in 1 .. 4 |-> a[1][i] * v[1] + a[2][i] * v[2] + a[3][i] * v[3] + a[4][i] * v[4]]

\* main of the vertex shader: gl_Position, in 1/65^4, of the vertex whose
\* source position has latitude lat and longitude lon, under the uniform ang
ExactVertexMain(lat, lon, ang) ==
    LET x == lat.c * lon.s
        y == lat.s * TrigUnit
        z == lat.c * lon.c
    IN  ExactMatVec(ExactMatMul(ExactRotateX(ang[1]), ExactRotateY(ang[2])),
                    <<x, y, z, TrigUnit * TrigUnit>>)

\* the program as constructed, and a source position and an orientation drawn
\* for the two projections
ProjInit ==
    /\ Constructed
    /\ \E lat \in ExactLats, lon \in ExactLons, pitch \in ExactTurns, yaw \in ExactTurns :
          probe = [lat |-> lat, lon |-> lon, pitch |-> pitch, yaw |-> yaw,
                   applied |-> FALSE, peer |-> <<>>, position |-> <<>>]

\* both projections applied to the drawn position: Peer::new followed by
\* Peer::rotate(pitch, yaw), and the vertex shader with the uniform (pitch, yaw)
ProjApply ==
    /\ ~probe.applied
    /\ probe' = [probe EXCEPT
                    !.applied = TRUE,
                    !.peer = ExactRotate(ExactPeerNew(probe.lat, probe.lon),
                                         probe.pitch, probe.yaw),
                    !.position = ExactVertexMain(probe.lat, probe.lon,
                                                 <<probe.pitch, probe.yaw>>)]
    /\ UNCHANGED <<angle, pressed, peers, uniform, raf, inFrame, gl, cells, setup,
                   moves, started, solo, last>>

ProjNext == ProjApply

ProjSpec == ProjInit /\ [][ProjNext]_vars

----------------------------------------------------------------------------
(* The entry point `start`, statement by statement.  Each step names the ways
   its call can fail and what the code makes of each: "err" where the failure
   reaches a `?` or ok_or and is returned, "panic" where it reaches unwrap,
   "abort" where a check compiled into the build stops the program. *)

StartSteps ==
    << [pc |-> "window",          fails |-> [missing |-> "panic"]],
       [pc |-> "document",        fails |-> [missing |-> "panic"]],
       [pc |-> "canvas",          fails |-> [missing |-> "panic"]],
       [pc |-> "canvas_cast",     fails |-> [other_type |-> "err"]],
       [pc |-> "webgl2",          fails |-> [throws |-> "err", null |-> "panic",
                                             other_type |-> "err"]],
       [pc |-> "vertex_shader",   fails |-> [not_created |-> "err", not_compiled |-> "err"]],
       [pc |-> "fragment_shader", fails |-> [not_created |-> "err", not_compiled |-> "err"]],
       [pc |-> "link_program",    fails |-> [not_created |-> "err", not_linked |-> "err"]],
       [pc |-> "buffer",          fails |-> [not_created |-> "err"]],
       [pc |-> "vertices",        fails |-> <<>>],
       [pc |-> "vertex_array",    fails |-> [not_created |-> "err"]],
       [pc |-> "angle",           fails |-> <<>>],
       [pc |-> "peers_canvas",    fails |-> [missing |-> "panic"]],
       [pc |-> "peers_cast",      fails |-> [other_type |-> "err"]],
       [pc |-> "peers",           fails |-> <<>>],
       [pc |-> "context2d",       fails |-> [throws |-> "err", null |-> "panic",
                                             other_type |-> "err"]],
       [pc |-> "draw",            fails |-> <<>>],
       [pc |-> "pressed",         fails |-> <<>>],
       [pc |-> "mousedown",       fails |-> [throws |-> "err"]],
       [pc |-> "mousemove",       fails |-> [throws |-> "err"]],
       [pc |-> "mouseup",         fails |-> [throws |-> "err"]],
       [pc |-> "click",           fails |-> [throws |-> "err"]],
       [pc |-> "return",          fails |-> <<>>] >>

\* what the page or the browser can refuse: nothing, or one call in one way
Faults ==
    {[at |-> "none", how |-> "none"]} \cup
    {[at |-> StartSteps[n].pc, how |-> h] :
        n \in DOMAIN StartSteps, h \in {"missing", "other_type", "throws", "null",
                                        "not_created", "not_compiled", "not_linked"}}

StepOf(pc) == CHOOSE n \in DOMAIN StartSteps : StartSteps[n].pc = pc

NextPc(pc) ==
    IF StepOf(pc) = Len(StartSteps) THEN "end" ELSE StartSteps[StepOf(pc) + 1].pc

\* before `start` runs nothing of the program exists
StartInit ==
    /\ angle = "none"
    /\ pressed = "none"
    /\ peers = "none"
    /\ uniform = "none"
    /\ gl = "none"
    /\ cells = "none"
    /\ raf = <<>>
    /\ inFrame = 0
    /\ moves = 0
    /\ started = 0
    /\ solo = FALSE
    /\ probe = <<>>
    /\ last = [op |-> "start", x |-> 0, y |-> 0, from |-> <<0, 0>>, started |-> {},
               draws |-> 1, calls |-> 0]
    /\ \E f \in Faults :
          /\ f.at # "none" => f.how \in DOMAIN StartSteps[StepOf(f.at)].fails
          /\ setup = [pc |-> "window", fault |-> f, result |-> "running",
                      listeners |-> {}, draws |-> 0]

\* the statement at setup.pc: it fails as the fault says, or takes effect.
\* The unsafe block at "vertices" has undefined behaviour twice over.  It
\* hands the include_bytes! data, aligned for u8, to slice::from_raw_parts as
\* *const f32: a build that checks the precondition stops the program there
\* when the data is off a 4-byte boundary, any other build goes on.  And it
\* uploads through a view of a Vec already dropped: BufferContents.
StartStep ==
    LET pc == setup.pc IN
    /\ setup.result = "running"
    /\ \/ /\ setup.fault.at = pc
          /\ setup' = [setup EXCEPT !.pc = "end",
                          !.result = StartSteps[StepOf(pc)].fails[setup.fault.how]]
          /\ UNCHANGED <<angle, pressed, peers, uniform, gl, cells>>
       \/ /\ pc = "vertices"
          /\ setup' = [setup EXCEPT !.pc = "end", !.result = "abort"]
          /\ UNCHANGED <<angle, pressed, peers, uniform, gl, cells>>
       \/ /\ setup.fault.at # pc
          /\ setup' = [setup EXCEPT
                          !.pc = NextPc(pc),
                          !.result = IF pc = "return" THEN "ok" ELSE "running",
                          !.listeners = IF pc \in {"mousedown", "mousemove", "mouseup", "click"}
                                        THEN @ \cup {pc} ELSE @,
                          !.draws = IF pc = "draw" THEN @ + 1 ELSE @]
          /\ angle' = (IF pc = "angle" THEN <<0, 0>> ELSE angle)
          /\ uniform' = (IF pc = "angle" THEN <<0, 0>>
                         ELSE IF pc = "draw" THEN DrawUniform(0, 0) ELSE uniform)
          /\ gl' = (IF pc = "webgl2"
                        THEN [InitialGl EXCEPT !.depthTest = FALSE, !.buffer = {}]
                    ELSE IF pc = "vertices" THEN [gl EXCEPT !.buffer = BufferContents]
                    ELSE IF pc = "angle" THEN [gl EXCEPT !.depthTest = TRUE]
                    ELSE IF pc = "draw" THEN DrawGl(gl) ELSE gl)
          /\ peers' = (IF pc = "peers" THEN InitialPeers
                       ELSE IF pc = "draw" THEN DrawPeers(peers, 0, 0) ELSE peers)
          /\ cells' = (IF pc = "peers" THEN InitialCells
                       ELSE IF pc = "draw" THEN CellRun(cells, DrawBorrows) ELSE cells)
          /\ pressed' = (IF pc = "pressed" THEN FALSE ELSE pressed)
    /\ UNCHANGED <<raf, inFrame, moves, started, solo, last, probe>>

StartNext == StartStep

StartSpec == StartInit /\ [][StartNext]_vars

----------------------------------------------------------------------------
(* Properties *)

\* the orientation a fly-to toward peer k is started for: dlat = peer.lat - lat
\* and dlon = peer.lon + lon with lon -= dlon, so (peer.lat, -peer.lon)
Target(k) == <<AsF32(peers[k].lat), -AsF32(peers[k].lon)>>

\* offset of a click from the pixel position (360 + x*360, 360 - y*360) of
\* peer k, in hundredths of a pixel
OffsetX(k, cx) == cx * 100 - (36000 + peers[k].x)
OffsetY(k, cy) == cy * 100 - (36000 - peers[k].y)

\* strictly less than 10 px away on both axes
StrictlyWithin(k, cx, cy) ==
    /\ -1000 < OffsetX(k, cx) /\ OffsetX(k, cx) < 1000
    /\ -1000 < OffsetY(k, cy) /\ OffsetY(k, cy) < 1000

InPitchRange(v) == -1000000 <= v /\ v <= 1000000

\* C1: after a click that starts one fly-to and exactly 51 invocations of its
\* callback, with no other event in between, no callback is pending and
\* RotationState equals the target orientation of the peer.
C1_FlyToSnapsAfter51 ==
    (solo /\ last.op \in {"tick", "done"} /\ last.calls = 51)
        => (raf = <<>> /\ angle = Target(last.x))

\* C2: the pitch of RotationState lies in [-1.0, 1.0] in every reachable state.
C2_PitchInRange == InPitchRange(angle[1])

\* C3: at the end of every handler turn the cached (x, y) of every peer is the
\* projection of its (lat, lon) rotated by the current RotationState.
C3_PeersFollowRotationState ==
    \A k \in PeerIds :
        LET q == Rotate(peers[k], IntoF64(angle[1]), IntoF64(angle[2]))
        IN  peers[k].x = q.x /\ peers[k].y = q.y

\* C4: the drag flag is never set while a fly-to callback is pending.
C4_ExclusiveInteraction == ~(pressed /\ raf # <<>>)

\* C5: a click that hit-tests positive for one or more peers starts exactly
\* one fly-to, toward the first matching peer in iteration order.
C5_FirstMatchOnly ==
    LET m == {k \in PeerIds : StrictlyWithin(k, last.x, last.y)}
    IN  (last.op = "click" /\ m # {})
            => last.started = {CHOOSE k \in m : \A j \in m : k <= j}

\* C6: at the end of every handler turn the pair most recently passed to draw
\* equals the current RotationState.
C6_DisplayFollowsState == uniform = angle

\* C7: the pair pushed to the GPU pass as the uniform and the pair the 2D pass
\* re-projected every peer with are the same pair, in every frame drawn.
C7_SingleSnapshot ==
    \A k \in PeerIds :
        LET c == Cartesian(peers[k].lat, peers[k].lon)
            lat == IntoF64(uniform[1])
            lon == IntoF64(uniform[2])
        IN  /\ peers[k].x = Mul(Cos(lon), c[1]) - Mul(Sin(lon), c[3])
            /\ peers[k].y = Mul(Cos(lat), c[2]) + Mul(Mul(Sin(lat), Cos(lon)), c[3])
                              + Mul(Mul(Sin(lat), Sin(lon)), c[1])

\* a frame drawn by an animation tick after a drag, with a pair that is not
\* the RotationState
C7_Witness == last.op = "tick" /\ last.draws = 1 /\ moves > 0 /\ uniform # angle

\* C8: after a mousemove handled while pressed, the stored pitch and the pitch
\* passed to draw lie in [-1.0, 1.0], and the yaw is the prior yaw plus
\* movement_x / 720, unclamped.
C8_DragClampsPitch ==
    (last.op = "mousemove" /\ pressed)
        => /\ InPitchRange(angle[1])
           /\ InPitchRange(uniform[1])
           /\ angle[2] = last.from[2] + (last.x * 1000000 + 360) \div 720
           /\ uniform[2] = angle[2]

\* a pressed mousemove with an extreme delta, from a pitch that a fly-to left
\* outside the range, that leaves the yaw outside [-1.0, 1.0]
C8_Witness ==
    /\ last.op = "mousemove" /\ pressed
    /\ ~InPitchRange(last.from[1])
    /\ last.y \in {2000, -2000}
    /\ ~InPitchRange(angle[2])

\* C10: a click that hit-tests negative for every peer changes neither
\* RotationState, nor any peer, nor the drag flag, nor the pending callbacks,
\* and issues no draw.
C10_MissIsNoOp ==
    [][(last'.op = "click" /\ \A k \in PeerIds : ~StrictlyWithin(k, last'.x, last'.y))
          => /\ angle' = angle
             /\ peers' = peers
             /\ pressed' = pressed
             /\ raf' = raf
             /\ uniform' = uniform
             /\ last'.draws = 0]_vars

\* a click more than 40 px from every peer, made while a fly-to is in flight
C10_Witness ==
    /\ last.op = "click" /\ last.started = {}
    /\ raf # <<>>
    /\ \A k \in PeerIds : OffsetX(k, last.x) > 4000 \/ OffsetX(k, last.x) < -4000
                            \/ OffsetY(k, last.y) > 4000 \/ OffsetY(k, last.y) < -4000


\* the setup failures the entry point is said to report: a missing canvas
\* element, no rendering context, a shader that does not compile, a program
\* that does not link
NamedSetupFaults ==
    {f \in Faults :
        \/ f.at = "canvas" /\ f.how = "missing"
        \/ f.at = "webgl2"
        \/ f.at \in {"vertex_shader", "fragment_shader", "link_program"}}

\* C11: every setup failure ends `start` by returning one failure value, never
\* by a panic, and the named failures (missing canvas element, no rendering
\* context, shader compile failure, program link failure) leave no event
\* listener registered and no draw issued.
C11_SetupFailuresAreValues ==
    (setup.pc = "end" /\ setup.result # "ok") =>
        /\ setup.result = "err"
        /\ setup.fault \in NamedSetupFaults => (setup.listeners = {} /\ setup.draws = 0)


\* C12: for every orientation (pitch, yaw) and every source (lat, lon), the 2D
\* path (Peer::cartesian with its +PI on z, then Peer::rotate) and the vertex
\* shader's transform (rotateX(pitch) * rotateY(yaw) applied to
\* (cos lat sin lon, sin lat, cos lat cos lon)) give the same screen-space x
\* and y: they are the same function, the floats being its roundings.
C12_SameProjection ==
    probe.applied =>
        /\ probe.peer.x = probe.position[1]
        /\ probe.peer.y = probe.position[2]

\* both projections were applied for a turn about both axes, neither a
\* multiple of a right angle, to a position off both axes of the screen
C12_Witness ==
    /\ probe.applied
    /\ probe.pitch.s # 0 /\ probe.pitch.c # 0
    /\ probe.yaw.s # 0 /\ probe.yaw.c # 0
    /\ probe.lat.s # 0 /\ probe.lat.c # 0 /\ probe.lon.s # 0
    /\ probe.peer.x # 0 /\ probe.peer.y # 0

\* C13: the (x, y) that Peer::rotate stores is a function of the peer's
\* construction-time (lat, lon) and of the two arguments alone: whatever was
\* drawn before, and however often, the cached (x, y) is the projection of the
\* unrotated point by the last arguments, and lat and lon are as constructed.
C13_NoDrift ==
    \A k \in PeerIds :
        LET lat == ToRadians(PeerDegrees[k][1])
            lon == ToRadians(PeerDegrees[k][2])
            x == Mul(Cos(lat), Sin(lon))
            y == Sin(lat)
            z == Mul(Cos(lat), Cos(lon + PI))
            pitch == IntoF64(uniform[1])
            yaw == IntoF64(uniform[2])
        IN  /\ peers[k].lat = lat
            /\ peers[k].lon = lon
            /\ peers[k].x = Mul(Cos(yaw), x) - Mul(Sin(yaw), z)
            /\ peers[k].y = Mul(Cos(pitch), y) + Mul(Mul(Sin(pitch), Cos(yaw)), z)
                              + Mul(Mul(Sin(pitch), Sin(yaw)), x)

\* after two drags that turned the globe, a third draw repeats the arguments
\* of the second
C13_Witness ==
    /\ last.op = "mousemove" /\ last.draws = 1
    /\ last.x = 0 /\ last.y = 0
    /\ moves >= 3
    /\ uniform[1] # 0 /\ uniform[2] # 0
    /\ uniform = last.from

\* C17: a mousemove (dx, dy) handled while pressed stores
\* (clamp(pitch + dy/720, -1, 1), yaw + dx/720) in the RotationState and
\* issues exactly one draw, with exactly that pair, in the same turn; a
\* mousemove while not pressed changes neither the RotationState nor any
\* peer's (x, y) and issues no draw; mousedown and mouseup change only the
\* pressed flag.
C17_DragTransition ==
    [][ /\ (last'.op = "mousemove" /\ pressed) =>
              LET pitch == angle[1] + (last'.y * 1000000 + 360) \div 720
                  yaw == angle[2] + (last'.x * 1000000 + 360) \div 720
                  clamped == IF pitch < -1000000 THEN -1000000
                             ELSE IF pitch > 1000000 THEN 1000000 ELSE pitch
              IN  /\ angle' = <<clamped, yaw>>
                  /\ uniform' = <<clamped, yaw>>
                  /\ last'.draws = 1
                  /\ UNCHANGED <<pressed, raf>>
        /\ (last'.op = "mousemove" /\ ~pressed) =>
              /\ UNCHANGED <<angle, peers, uniform, gl, pressed, raf>>
              /\ last'.draws = 0
        /\ last'.op \in {"mousedown", "mouseup"} =>
              /\ pressed' = (last'.op = "mousedown")
              /\ UNCHANGED <<angle, peers, uniform, gl, raf>>
              /\ last'.draws = 0 ]_vars

\* a pressed mousemove from a turned globe whose pitch stays inside the range,
\* so that the stored pitch is the sum and not a bound
C17_Witness ==
    /\ last.op = "mousemove" /\ last.draws = 1 /\ pressed
    /\ last.from[1] # 0 /\ last.y # 0 /\ last.x # 0
    /\ angle[1] > -1000000 /\ angle[1] < 1000000

\* C14: a click that hits a peer while an earlier fly-to is in flight adds its
\* animation to the pending callbacks and leaves the earlier ones as they
\* were, and with two or more callbacks pending successive invocations
\* belong to different animations, so successive frames are drawn from
\* different animations' orientations.
C14_ConcurrentAnimations ==
    [][ /\ last'.op = "click" =>
              /\ Len(raf') = Len(raf) + Cardinality(last'.started)
              /\ SubSeq(raf', 1, Len(raf)) = raf
        /\ (last.op = "tick" /\ last'.op \in {"tick", "done"} /\ Len(raf) >= 2) =>
              last'.y # last.y ]_vars

\* two animations started by different clicks are pending, one further on
\* than the other, and the frame just drawn is not the RotationState
C14_Witness ==
    /\ last.op = "tick"
    /\ Len(raf) >= 2
    /\ raf[1].i # raf[Len(raf)].i
    /\ raf[1].peer # raf[Len(raf)].peer

\* C15: a fly-to advances the orientation exactly 50 times, by
\* (dlat/50, -dlon/50) each, so that every frame it draws lies between its
\* start and its target, the target included, and none past the target (up
\* to the rounding of the 50 additions, 0.00005 rad).
C15_FiftyStepsNoOvershoot ==
    \A n \in DOMAIN raf :
        LET a == raf[n]
            lat0 == a.lat - a.i * RoundDiv(a.dlat, 50)
            lon0 == a.lon + a.i * RoundDiv(a.dlon, 50)
            tlat == lat0 + a.dlat
            tlon == lon0 - a.dlon
        IN  /\ a.i <= 50
            /\ (IF lat0 <= tlat THEN lat0 <= a.lat /\ a.lat <= tlat + 50
                                ELSE tlat - 50 <= a.lat /\ a.lat <= lat0)
            /\ (IF lon0 <= tlon THEN lon0 <= a.lon /\ a.lon <= tlon + 50
                                ELSE tlon - 50 <= a.lon /\ a.lon <= lon0)

\* whether the callback of animation id is pending, and where in the list
Pending(q, id) == \E n \in DOMAIN q : q[n].id = id
Place(q, id) == CHOOSE n \in DOMAIN q : q[n].id = id

\* C16: while animation frames keep being delivered, every started fly-to
\* ends after a bounded number of invocations of its callback, whatever mouse
\* events come in between, and once ended it is never requested again.
\* Stated so that a finite run refutes it: every delivery of a frame either
\* invokes a pending callback, which counts one of its at most 52
\* invocations, the last of which releases it, or moves it one place nearer
\* the head of the list; a mouse event neither
\* resets its count, nor moves it back, nor releases it; and a callback that
\* is not pending becomes pending only as a new animation.
C16_FlyToEnds ==
    [][ \A id \in 1 .. MaxInputs :
          /\ Pending(raf, id) =>
                LET n == Place(raf, id) IN
                /\ raf[n].i <= 51
                /\ IF last'.op \in {"tick", "done"}
                   THEN IF n = 1
                        THEN IF raf[n].i = 51
                             THEN ~Pending(raf', id)
                             ELSE /\ Pending(raf', id)
                                  /\ raf'[Place(raf', id)].i = raf[n].i + 1
                        ELSE /\ Pending(raf', id)
                             /\ Place(raf', id) = n - 1
                             /\ raf'[n - 1].i = raf[n].i
                   ELSE /\ Pending(raf', id)
                        /\ Place(raf', id) = n
                        /\ raf'[n].i = raf[n].i
          /\ (~Pending(raf, id) /\ Pending(raf', id)) =>
                (last'.op = "click" /\ id > started) ]_vars

\* a fly-to has ended after drags and another click came in between
C16_Witness ==
    /\ last.op = "done" /\ last.calls = 52
    /\ moves > 0
    /\ started >= 2

\* C18: every draw pushes the uniform, then clears both the colour and the
\* depth buffer, then issues the line-strip draw call, so that no draw call
\* meets depth values of an earlier draw call while the depth test is on.
C18_ClearsColourAndDepth ==
    /\ \E i, j, k \in DOMAIN gl.commands :
          /\ i < j /\ j < k
          /\ gl.commands[i].op = "uniform2fv"
          /\ gl.commands[j].op = "clear"
          /\ {"COLOR_BUFFER_BIT", "DEPTH_BUFFER_BIT"} \subseteq gl.commands[j].mask
          /\ gl.commands[k].op = "draw_arrays"
    /\ ~gl.stale

\* C19: the ticks of a fly-to never write the RotationState; they accumulate
\* privately from the snapshot of the RotationState taken by the click, and
\* only the final callback stores the accumulated orientation, over whatever
\* a drag stored meanwhile; a drag during the fly-to computes from the
\* RotationState, not from the frame last animated.
C19_PrivateAccumulation ==
    [][ /\ last'.op = "click" =>
              \A n \in Len(raf) + 1 .. Len(raf') :
                  raf'[n].lat = angle[1] /\ raf'[n].lon = angle[2] /\ raf'[n].i = 0
        /\ last'.op = "tick" =>
              /\ angle' = angle
              /\ raf'[Len(raf')].lat = raf[1].lat + (raf[1].dlat + 25) \div 50
              /\ raf'[Len(raf')].lon = raf[1].lon - (raf[1].dlon + 25) \div 50
              /\ uniform' = <<raf'[Len(raf')].lat, raf'[Len(raf')].lon>>
        /\ last'.op = "done" => angle' = <<raf[1].lat, raf[1].lon>>
        /\ (last'.op = "mousemove" /\ pressed) =>
              angle'[2] = angle[2] + (last'.x * 1000000 + 360) \div 720 ]_vars

\* the only fly-to has ended and stored its orientation over one that a drag
\* had stored during the flight: what it stored is not the fly-to from the
\* orientation it replaced
C19_Witness ==
    /\ last.op = "done" /\ started = 1 /\ moves > 0
    /\ angle[1] # last.from[1]
          + 51 * ((AsF32(peers[last.x].lat) - last.from[1] + 25) \div 50)

\* C20: no handler turn meets a RefCell borrow conflict: the peer list is
\* never mutably borrowed by draw while the click handler's iteration holds
\* it borrowed, a callback cell is never mutably borrowed while another
\* borrow of it is live, and every borrow is released when the turn ends.
C20_NoBorrowPanic == ~cells.panic /\ cells.held = <<>>

\* a click during a fly-to started two animations at once, and one fly-to has
\* since ended while others are pending
C20_Witness ==
    /\ last.op = "done"
    /\ raf # <<>>
    /\ started >= 3

====
